---------------------------- MODULE Spec2Model ----------------------------
(***************************************************************************)
(* Model of the fish feeder sketch NEW_ADEBOYE.ino: the keypad navigator   *)
(* and input editor, the schedule monitor with its per-minute latches and  *)
(* the pump / feed actuator controller, all driven by the single loop().   *)
(*                                                                         *)
(* Time is counted in milliseconds as in the sketch (millis(), delay()).   *)
(* It advances in quanta of the shortest delay of the sketch (the 500 ms   *)
(* dispense hold), and by every delay() a handler executes.  The RTC runs  *)
(* on the same time base; its dial is shortened (DayHours, HourMinutes,    *)
(* MinuteMs) so that a whole day fits the explored horizon.                *)
(*                                                                         *)
(* loop() is split at the points where the sketch itself stops to wait for *)
(* a key: pc = "loop" is the top of loop(), pc = "service" is loop() after *)
(* handleKeypress returned (line 183 on), and pc = "showMenu", ...,        *)
(* "cancelOperation" are the blocking while(true) key loops.               *)
(***************************************************************************)
EXTENDS Integers, Sequences, FiniteSets, TLC

\* ------------------------------------------------------------------ bounds

\* Length of the modelled RTC minute in ms (a real minute is 60000).  It is
\* longer than the delays of any one pass of loop().
MinuteMs == 10000
\* Minutes on the modelled dial per hour, and hours per day.
HourMinutes == 2
DayHours == 2
\* No step starts at or after the horizon of its specification. SpecPause
\* runs through setup, one day on the dial and the start of the next.
MaxMillis == 52000
\* The horizons of SpecRun, SpecNav, SpecFeedEdit and SpecSched.
RunMillis == 16000
NavMillis == 6000
FeedMillis == 9000
SchedMillis == 12000
\* Keys are typed on an edit screen while the buffer is shorter than this
\* (the sketch's String has no bound of its own); NavBuf is the same for
\* SpecNav.
MaxBuf == 3
NavBuf == 2
\* The longest text a script types before Enter, and the longest run of one
\* key a script types without Enter.
CommitLen == 5
LongLen == 12
\* The horizon of SpecRestart: setup, one day on the dial and the first
\* passes of the next.
RestartMillis == 46000
\* The horizon of SpecBuffer: setup and the dwells of a few commits.
BufferMillis == 8000

\* --------------------------------------------------- constants of the sketch

SERVO_REST_POS == 0
SERVO_FEED_POS == 90
EEPROM_INIT_FLAG == 0
EEPROM_PUMP_HOUR == 1
EEPROM_PUMP_MINUTE == 2
EEPROM_PUMP_DURATION == 3
EEPROM_FEED_HOUR == 5
EEPROM_FEED_MINUTE == 6
EEPROM_FEED_QUANTITY == 7
EEPROM_MAGIC_NUMBER == 42
\* delay(500) in dispenseFood: the dispense hold, and the time quantum.
DispenseHoldMs == 500
\* millis() - lastFeedTime >= 2000 in loop().
FeedIntervalMs == 2000
\* LiquidCrystal_I2C lcd(0x27, 16, 2): the columns of a display row.
LcdCols == 16

MenuStates == {"MAIN_DISPLAY", "SET_PUMP_TIME", "SET_PUMP_DURATION",
               "SET_FEED_TIME", "SET_FEED_QUANTITY", "SET_CURRENT_TIME"}
TimeStates == {"SET_PUMP_TIME", "SET_FEED_TIME", "SET_CURRENT_TIME"}
EditStates == MenuStates \ {"MAIN_DISPLAY"}
Blocking == {"showMenu", "showFeedMenu", "showSettingsMenu", "cancelOperation"}

DigitKeys == {"0", "1", "2", "3", "4", "5", "6", "7", "8", "9"}
AllKeys == DigitKeys \cup {"F", "G", "#", "*", "U", "D", "E", "L", "R", "N"}
NoKey == ""

\* --------------------------------------------------------- String helpers

DigitVal(c) ==
    CASE c = "0" -> 0 [] c = "1" -> 1 [] c = "2" -> 2 [] c = "3" -> 3
      [] c = "4" -> 4 [] c = "5" -> 5 [] c = "6" -> 6 [] c = "7" -> 7
      [] c = "8" -> 8 [] c = "9" -> 9

DigitChar(d) == <<"0", "1", "2", "3", "4", "5", "6", "7", "8", "9">>[d + 1]

\* String::indexOf(':'): the first position (from 0) holding ch, or -1.
indexOf(str, ch) ==
    IF \E i \in 1..Len(str) : str[i] = ch
    THEN (CHOOSE i \in 1..Len(str) :
              str[i] = ch /\ \A j \in 1..(i - 1) : str[j] # ch) - 1
    ELSE -1

\* String::substring(from, to) and substring(from), positions from 0.
substring(str, from, to) == SubSeq(str, from + 1, to)
substringFrom(str, from) == SubSeq(str, from + 1, Len(str))

\* atol: the value of the longest prefix of digits, 0 when there is none.
RECURSIVE atolFrom(_, _, _)
atolFrom(str, i, acc) ==
    IF i > Len(str) \/ str[i] \notin DigitKeys THEN acc
    ELSE atolFrom(str, i + 1, 10 * acc + DigitVal(str[i]))

\* A long narrowed to the 16-bit int of the AVR targets.
ToInt16(v) == ((v + 32768) % 65536) - 32768

\* String::toInt() assigned to an int.
toInt(str) == ToInt16(atolFrom(str, 1, 0))

\* ------------------------------------------------------------------- RTC

\* The minute after h:m.  A clock set inside the shortened dial wraps at
\* HourMinutes and DayHours; one set outside it wraps at 60 and 24.
MinuteWrap(m) == IF m < HourMinutes THEN HourMinutes ELSE 60
HourWrap(h) == IF h < DayHours THEN DayHours ELSE 24

NextMinute(t) ==
    IF t.minute + 1 < MinuteWrap(t.minute)
    THEN [t EXCEPT !.minute = t.minute + 1]
    ELSE IF t.hour + 1 < HourWrap(t.hour)
         THEN [t EXCEPT !.minute = 0, !.hour = t.hour + 1]
         ELSE [t EXCEPT !.minute = 0, !.hour = 0, !.day = t.day + 1]

RECURSIVE RtcAdvance(_, _)
RtcAdvance(t, ms) ==
    IF t.ms + ms < MinuteMs THEN [t EXCEPT !.ms = t.ms + ms]
    ELSE RtcAdvance(NextMinute([t EXCEPT !.ms = 0]), t.ms + ms - MinuteMs)

\* rtc.adjust(DateTime(now.year(), now.month(), now.day(), h, m, 0))
RtcAdjust(t, h, m) == [day |-> t.day, hour |-> h, minute |-> m, ms |-> 0]

\* ----------------------------------------------- sequential state of a step

(***************************************************************************)
(* The handlers are sequential code: each is an operator from a record s   *)
(* of all globals (named as in the sketch) to the record after it ran.     *)
(* Besides the globals s holds millis and rtc (the two time sources), pc,  *)
(* now and key (loop()'s position and locals; key is NoKey once loop()     *)
(* returned), the headlines the last step printed on the lcd (shown), and  *)
(* history fields (h...) that only record what happened.                   *)
(***************************************************************************)

\* millis() and the timestamps are unsigned long; every time of the explored
\* horizon (MaxMillis) is far below 2^32, so their differences never wrap.

\* History values for "nothing yet".
NoRun == [on |-> -1, dur |-> -1]
NoFeed == [n |-> -1, q |-> -1, gap |-> -1, paused |-> FALSE]
NoStart == [at |-> <<-1, -1, -1>>, n |-> 0]

Least(a, b) == IF a < b THEN a ELSE b

\* lcd.print of a headline: recorded as output of the current step.
lcdPrint(s, msg) == [s EXCEPT !.shown = Append(@, msg)]

\* delay(ms): both time sources advance; the relay keeps its level meanwhile.
delay(s, ms) ==
    [s EXCEPT !.millis = @ + ms,
              !.rtc = RtcAdvance(@, ms),
              !.hPumpOn = IF s.relay = "LOW" THEN @ + ms ELSE @,
              !.hSince = IF @ < 0 THEN @ ELSE Least(@ + ms, FeedIntervalMs)]

\* ---------------------------------------------------------------- EEPROM

highByte(v) == (v % 65536) \div 256
lowByte(v) == v % 256

\* EEPROM.write(address, value): one byte is stored.
EEPROMwrite(e, address, value) == [e EXCEPT ![address] = value % 256]

writeIntToEEPROM(e, address, value) ==
    EEPROMwrite(EEPROMwrite(e, address, highByte(value)),
                address + 1, lowByte(value))

readIntFromEEPROM(e, address) == ToInt16(e[address] * 256 + e[address + 1])

saveSettingsMissesPumpHour(s) ==
    LET e1 == EEPROMwrite(s.eeprom, EEPROM_INIT_FLAG, EEPROM_MAGIC_NUMBER)
        e3 == EEPROMwrite(e1, EEPROM_PUMP_MINUTE, s.pumpMinute)
        e4 == writeIntToEEPROM(e3, EEPROM_PUMP_DURATION, s.pumpDuration)
        e5 == EEPROMwrite(e4, EEPROM_FEED_HOUR, s.feedHour)
        e6 == EEPROMwrite(e5, EEPROM_FEED_MINUTE, s.feedMinute)
        e7 == writeIntToEEPROM(e6, EEPROM_FEED_QUANTITY, s.feedQuantity)
    IN  [s EXCEPT !.eeprom = e7]

saveSettings(s) ==
    LET e1 == EEPROMwrite(s.eeprom, EEPROM_INIT_FLAG, EEPROM_MAGIC_NUMBER)
        e2 == EEPROMwrite(e1, EEPROM_PUMP_HOUR, s.pumpHour)
        e3 == EEPROMwrite(e2, EEPROM_PUMP_MINUTE, s.pumpMinute)
        e4 == writeIntToEEPROM(e3, EEPROM_PUMP_DURATION, s.pumpDuration)
        e5 == EEPROMwrite(e4, EEPROM_FEED_HOUR, s.feedHour)
        e6 == EEPROMwrite(e5, EEPROM_FEED_MINUTE, s.feedMinute)
        e7 == writeIntToEEPROM(e6, EEPROM_FEED_QUANTITY, s.feedQuantity)
    IN  [s EXCEPT !.eeprom = e7]

\* What loadSettings would read back from the store.
Persisted(e) ==
    [pumpHour |-> e[EEPROM_PUMP_HOUR],
     pumpMinute |-> e[EEPROM_PUMP_MINUTE],
     pumpDuration |-> readIntFromEEPROM(e, EEPROM_PUMP_DURATION),
     feedHour |-> e[EEPROM_FEED_HOUR],
     feedMinute |-> e[EEPROM_FEED_MINUTE],
     feedQuantity |-> readIntFromEEPROM(e, EEPROM_FEED_QUANTITY)]

\* ---------------------------------------------------- actuator controller

\* History of starts: the clock minute of the last one (at) and how many
\* that minute has had (n).
CountStart(h, t) ==
    IF h.at = <<t.day, t.hour, t.minute>>
    THEN [h EXCEPT !.n = @ + 1]
    ELSE [at |-> <<t.day, t.hour, t.minute>>, n |-> 1]

startPump(s) ==
    LET s1 == [s EXCEPT !.relay = "LOW",
                        !.pumpActivated = TRUE,
                        !.pumpPaused = FALSE,
                        !.pumpStartTime = s.millis,
                        !.pumpElapsedBeforePause = 0,
                        !.hPumpStarts = CountStart(@, s.rtc)]
    IN  delay(lcdPrint(s1, "PUMP STARTED"), 1500)

stopPump(s) ==
    LET s1 == [s EXCEPT !.relay = "HIGH",
                        !.pumpActivated = FALSE,
                        !.pumpPaused = FALSE,
                        !.pumpElapsedBeforePause = 0,
                        !.hPumpOn = 0]
    IN  delay(lcdPrint(s1, "PUMP STOPPED"), 2000)

startFeeding(s) ==
    LET s1 == [s EXCEPT !.feedActivated = TRUE,
                        !.feedPaused = FALSE,
                        !.feedCount = 0,
                        !.lastFeedTime = s.millis,
                        !.hPaused = FALSE,
                        !.hFeedStarts = CountStart(@, s.rtc)]
    IN  delay(lcdPrint(s1, "FEEDING STARTED"), 1500)

\* The servo swings out, holds, and swings back.
dispenseFood(s) ==
    LET s1 == [s EXCEPT !.servo = SERVO_FEED_POS,
                        !.hDispensed = @ + 1,
                        !.hSince = 0,
                        !.hGap = IF s.hSince < 0 THEN @
                                 ELSE IF @ < 0 THEN s.hSince
                                 ELSE Least(@, s.hSince)]
        s2 == delay(s1, DispenseHoldMs)
    IN  [s2 EXCEPT !.servo = SERVO_REST_POS]

\* togglePausePump with the relay left alone when the run is paused.
togglePausePumpRelayStaysOn(s) ==
    IF ~s.pumpActivated THEN s
    ELSE LET s1 == [s EXCEPT !.pumpPaused = ~s.pumpPaused]
         IN  IF s1.pumpPaused
             THEN delay(lcdPrint(
                      [s1 EXCEPT !.pumpElapsedBeforePause =
                                     @ + (s.millis - s.pumpStartTime)],
                      "PUMP PAUSED"), 1500)
             ELSE delay(lcdPrint(
                      [s1 EXCEPT !.pumpStartTime = s.millis,
                                 !.relay = "LOW"],
                      "PUMP RESUMED"), 1000)

togglePausePump(s) ==
    IF ~s.pumpActivated THEN s
    ELSE LET s1 == [s EXCEPT !.pumpPaused = ~s.pumpPaused]
         IN  IF s1.pumpPaused
             THEN delay(lcdPrint(
                      [s1 EXCEPT !.pumpElapsedBeforePause =
                                     @ + (s.millis - s.pumpStartTime),
                                 !.relay = "HIGH"],
                      "PUMP PAUSED"), 1500)
             ELSE delay(lcdPrint(
                      [s1 EXCEPT !.pumpStartTime = s.millis,
                                 !.relay = "LOW"],
                      "PUMP RESUMED"), 1000)

togglePauseFeed(s) ==
    IF ~s.feedActivated THEN s
    ELSE LET s1 == [s EXCEPT !.feedPaused = ~s.feedPaused, !.hPaused = TRUE]
         IN  IF s1.feedPaused
             THEN delay(lcdPrint([s1 EXCEPT !.servo = SERVO_REST_POS],
                                 "FEED PAUSED"), 1500)
             ELSE delay(lcdPrint([s1 EXCEPT !.lastFeedTime = s.millis],
                                 "FEED RESUMED"), 1000)

\* togglePause acting on one run only: the pump if it is active, else the feed.
togglePauseOneRun(s) ==
    IF s.pumpActivated THEN togglePausePump(s) ELSE togglePauseFeed(s)

togglePause(s) == togglePauseFeed(togglePausePump(s))

\* ------------------------------------------------------- schedule monitor

\* checkPumpSchedule with the guard the feed schedule has.
checkPumpScheduleGuarded(s, now) ==
    LET s1 == IF now.hour = s.pumpHour /\ now.minute = s.pumpMinute
                 /\ ~s.pumpTriggered /\ ~s.pumpActivated
              THEN [startPump(s) EXCEPT !.pumpTriggered = TRUE]
              ELSE s
    IN  IF now.minute # s1.pumpMinute
        THEN [s1 EXCEPT !.pumpTriggered = FALSE]
        ELSE s1

checkPumpSchedule(s, now) ==
    LET s1 == IF now.hour = s.pumpHour /\ now.minute = s.pumpMinute
                 /\ ~s.pumpTriggered
              THEN [startPump(s) EXCEPT !.pumpTriggered = TRUE]
              ELSE s
    IN  IF now.minute # s1.pumpMinute
        THEN [s1 EXCEPT !.pumpTriggered = FALSE]
        ELSE s1

checkFeedSchedule(s, now) ==
    LET s1 == IF now.hour = s.feedHour /\ now.minute = s.feedMinute
                 /\ ~s.feedTriggered /\ ~s.feedActivated
              THEN [startFeeding(s) EXCEPT !.feedTriggered = TRUE]
              ELSE s
    IN  IF now.minute # s1.feedMinute
        THEN [s1 EXCEPT !.feedTriggered = FALSE]
        ELSE s1

\* loop(), lines 198-204: the running pump is stopped once its time is up.
handleActivePump(s) ==
    IF s.pumpActivated /\ ~s.pumpPaused
    THEN LET elapsed == s.pumpElapsedBeforePause
                              + (s.millis - s.pumpStartTime)
         IN  IF elapsed >= s.pumpDuration * 1000
             THEN stopPump([s EXCEPT !.hLastRun =
                               [on |-> s.hPumpOn, dur |-> s.pumpDuration]])
             ELSE s
    ELSE s

\* handleActiveFeed without the two-second gate.
handleActiveFeedEager(s) ==
    IF s.feedActivated /\ ~s.feedPaused
    THEN LET s1 == dispenseFood(s)
             s2 == [s1 EXCEPT !.lastFeedTime = s1.millis,
                              !.feedCount = ToInt16(@ + 1)]
         IN  IF s2.feedCount >= s2.feedQuantity
             THEN delay(lcdPrint(
                      [s2 EXCEPT !.feedActivated = FALSE,
                                 !.feedCount = 0,
                                 !.hFeedDone = [n |-> s2.hDispensed,
                                               q |-> s2.feedQuantity,
                                               gap |-> s2.hGap,
                                               paused |-> s2.hPaused],
                                 !.hPaused = FALSE,
                                 !.hDispensed = 0,
                                 !.hSince = -1,
                                 !.hGap = -1],
                      "FEEDING COMPLETE"), 2000)
             ELSE s2
    ELSE s

\* loop(), lines 206-223: one dispense every two seconds until the quantity.
handleActiveFeed(s) ==
    IF s.feedActivated /\ ~s.feedPaused
       /\ s.millis - s.lastFeedTime >= FeedIntervalMs
    THEN LET s1 == dispenseFood(s)
             s2 == [s1 EXCEPT !.lastFeedTime = s1.millis,
                              !.feedCount = ToInt16(@ + 1)]
         IN  IF s2.feedCount >= s2.feedQuantity
             THEN delay(lcdPrint(
                      [s2 EXCEPT !.feedActivated = FALSE,
                                 !.feedCount = 0,
                                 !.hFeedDone = [n |-> s2.hDispensed,
                                               q |-> s2.feedQuantity,
                                               gap |-> s2.hGap,
                                               paused |-> s2.hPaused],
                                 !.hPaused = FALSE,
                                 !.hDispensed = 0,
                                 !.hSince = -1,
                                 !.hGap = -1],
                      "FEEDING COMPLETE"), 2000)
             ELSE s2
    ELSE s

\* loop() from line 183 to its end.
loopService(s) ==
    LET s1 == checkPumpSchedule([s EXCEPT !.shown = <<>>], s.now)
        s2 == checkFeedSchedule(s1, s.now)
        s3 == handleActivePump(s2)
        s4 == handleActiveFeed(s3)
    IN  [s4 EXCEPT !.pc = "loop", !.key = NoKey]

\* ------------------------------------------------------------ input editor

\* The text the edit screen shows in row 0.
Title(state) ==
    CASE state = "SET_PUMP_TIME" -> "Pump Time (HH*MM)"
      [] state = "SET_PUMP_DURATION" -> "Pump Duration"
      [] state = "SET_FEED_TIME" -> "Feed Time (HH*MM)"
      [] state = "SET_FEED_QUANTITY" -> "Feed Quantity"
      [] state = "SET_CURRENT_TIME" -> "Set Time (HH*MM)"
      [] OTHER -> ""

\* updateInputDisplayWithCursor: the prompt's length, which places the cursor.
promptLen(state) ==
    IF state = "SET_PUMP_DURATION" THEN 5
    ELSE IF state = "SET_FEED_QUANTITY" THEN 9
    ELSE 7

\* handleKeypress, lines 288-313: replace the character at the cursor, or append.
insertOrReplace(s, ch) ==
    IF s.cursorPos < Len(s.inputBuffer)
    THEN LET buf == [s.inputBuffer EXCEPT ![s.cursorPos + 1] = ch]
             pos == s.cursorPos + 1
         IN  [s EXCEPT !.inputBuffer = buf,
                       !.cursorPos = IF pos > Len(buf) THEN Len(buf) ELSE pos]
    ELSE LET buf == Append(s.inputBuffer, ch)
         IN  [s EXCEPT !.inputBuffer = buf, !.cursorPos = Len(buf)]

moveCursorLeft(s) ==
    IF s.cursorPos > 0 THEN [s EXCEPT !.cursorPos = @ - 1] ELSE s

\* moveCursorRight without the test against the length.
moveCursorRightUnclamped(s) == [s EXCEPT !.cursorPos = @ + 1]

moveCursorRight(s) ==
    IF s.cursorPos < Len(s.inputBuffer) THEN [s EXCEPT !.cursorPos = @ + 1] ELSE s

\* A menu entry opens its edit screen with an empty buffer.
enterEdit(s, state) ==
    lcdPrint([s EXCEPT !.currentState = state,
                       !.inputBuffer = <<>>,
                       !.cursorPos = 0,
                       !.pc = "service"],
             Title(state))

\* ----------------------------------------------------------- processInput

\* The tail of every accepted commit: dwell, then back to the main display.
commitDone(s) ==
    [delay(s, 2000) EXCEPT !.currentState = "MAIN_DISPLAY",
                           !.inputBuffer = <<>>,
                           !.cursorPos = 0]

\* commitRejected without the reset of the buffer.
commitRejectedKeepsBuffer(s, msg, ms) ==
    lcdPrint(delay(lcdPrint(s, msg), ms), Title(s.currentState))

\* The tail of every rejected commit: message, dwell, the same screen again.
commitRejected(s, msg, ms) ==
    lcdPrint([delay(lcdPrint(s, msg), ms) EXCEPT !.inputBuffer = <<>>,
                                                 !.cursorPos = 0],
             Title(s.currentState))

ValidTime(h, m) == h >= 0 /\ h <= 23 /\ m >= 0 /\ m <= 59

processPumpTime(s) ==
    LET colonPos == indexOf(s.inputBuffer, ":")
    IN  IF colonPos > 0
        THEN LET s1 == [s EXCEPT
                          !.pumpHour = toInt(substring(s.inputBuffer, 0, colonPos)),
                          !.pumpMinute = toInt(substringFrom(s.inputBuffer, colonPos + 1))]
             IN  IF ValidTime(s1.pumpHour, s1.pumpMinute)
                 THEN commitDone(lcdPrint(saveSettings(s1), "Pump Time Set!"))
                 ELSE commitRejected(s1, "Invalid Time!", 1500)
        ELSE commitRejected(s, "Use * for time!", 2000)

processPumpDuration(s) ==
    LET value == toInt(s.inputBuffer)
    IN  IF value > 0
        THEN commitDone(lcdPrint(saveSettings([s EXCEPT !.pumpDuration = value]),
                                 "Duration Set!"))
        ELSE commitRejected(s, "Invalid! (>0)", 1500)

processFeedTime(s) ==
    LET colonPos == indexOf(s.inputBuffer, ":")
    IN  IF colonPos > 0
        THEN LET s1 == [s EXCEPT
                          !.feedHour = toInt(substring(s.inputBuffer, 0, colonPos)),
                          !.feedMinute = toInt(substringFrom(s.inputBuffer, colonPos + 1))]
             IN  IF ValidTime(s1.feedHour, s1.feedMinute)
                 THEN commitDone(lcdPrint(saveSettings(s1), "Feed Time Set!"))
                 ELSE commitRejected(s1, "Invalid Time!", 1500)
        ELSE commitRejected(s, "Use * for time!", 2000)

processFeedQuantity(s) ==
    LET value == toInt(s.inputBuffer)
    IN  IF value >= 1 /\ value <= 999
        THEN commitDone(lcdPrint(saveSettings([s EXCEPT !.feedQuantity = value]),
                                 "Quantity Set!"))
        ELSE commitRejected(s, "Invalid! (1-999)", 1500)

processCurrentTime(s) ==
    LET colonPos == indexOf(s.inputBuffer, ":")
    IN  IF colonPos > 0
        THEN LET newHour == toInt(substring(s.inputBuffer, 0, colonPos))
                 newMinute == toInt(substringFrom(s.inputBuffer, colonPos + 1))
             IN  IF ValidTime(newHour, newMinute)
                 THEN commitDone(lcdPrint(
                          [s EXCEPT !.rtc = RtcAdjust(s.rtc, newHour, newMinute),
                                    !.hAdjusts = @ + 1],
                          "Clock Set!"))
                 ELSE commitRejected(s, "Invalid Time!", 1500)
        ELSE commitRejected(s, "Use * for time!", 2000)

processInput(s) ==
    CASE s.currentState = "SET_PUMP_TIME" -> processPumpTime(s)
      [] s.currentState = "SET_PUMP_DURATION" -> processPumpDuration(s)
      [] s.currentState = "SET_FEED_TIME" -> processFeedTime(s)
      [] s.currentState = "SET_FEED_QUANTITY" -> processFeedQuantity(s)
      [] s.currentState = "SET_CURRENT_TIME" -> processCurrentTime(s)
      [] OTHER -> s

\* ---------------------------------------------------------- menu navigator

\* Entry of a blocking screen: it draws itself and waits for keys.
showMenu(s) == lcdPrint([s EXCEPT !.pc = "showMenu"], "1:PumpTime")
showFeedMenu(s) == lcdPrint([s EXCEPT !.pc = "showFeedMenu"], "3:FeedTime")
showSettingsMenu(s) == lcdPrint([s EXCEPT !.pc = "showSettingsMenu"], "5:Set Clock")
cancelOperation(s) == lcdPrint([s EXCEPT !.pc = "cancelOperation"], "Are you sure?")

\* Menus' escape: the main display, and the menu returns.
menuEscape(s) == [s EXCEPT !.currentState = "MAIN_DISPLAY", !.pc = "service"]

\* One key read by showMenu's loop.
showMenuKey(s, key) ==
    CASE key = "G" -> cancelOperation(s)
      [] key = "1" -> enterEdit(s, "SET_PUMP_TIME")
      [] key = "2" -> enterEdit(s, "SET_PUMP_DURATION")
      [] key = "D" -> showFeedMenu(s)
      [] key = "U" -> [s EXCEPT !.pc = "service"]
      [] key = "E" -> menuEscape(s)
      [] OTHER -> s

showFeedMenuKey(s, key) ==
    CASE key = "G" -> cancelOperation(s)
      [] key = "3" -> enterEdit(s, "SET_FEED_TIME")
      [] key = "4" -> enterEdit(s, "SET_FEED_QUANTITY")
      [] key = "D" -> showSettingsMenu(s)
      [] key = "U" -> showMenu(s)
      [] key = "E" -> menuEscape(s)
      [] OTHER -> s

showSettingsMenuKey(s, key) ==
    CASE key = "G" -> cancelOperation(s)
      [] key = "5" -> enterEdit(s, "SET_CURRENT_TIME")
      [] key = "U" -> showFeedMenu(s)
      [] key = "E" -> menuEscape(s)
      [] OTHER -> s

\* cancelYes without the feed's half.
cancelYesPumpOnly(s) ==
    LET s1 == IF s.pumpActivated
              THEN delay(lcdPrint(stopPump(s), "PUMP CANCELLED"), 1500)
              ELSE s
    IN  [s1 EXCEPT !.currentState = "MAIN_DISPLAY",
                   !.inputBuffer = <<>>,
                   !.cursorPos = 0,
                   !.pc = "service"]

\* cancelOperation, lines 340-365: "yes".
cancelYes(s) ==
    LET s1 == IF s.pumpActivated
              THEN delay(lcdPrint(stopPump(s), "PUMP CANCELLED"), 1500)
              ELSE s
        s2 == IF s1.feedActivated
              THEN delay(lcdPrint([s1 EXCEPT !.feedActivated = FALSE,
                                             !.feedPaused = FALSE,
                                             !.feedCount = 0,
                                             !.servo = SERVO_REST_POS,
                                             !.hPaused = FALSE,
                                             !.hDispensed = 0,
                                             !.hSince = -1,
                                             !.hGap = -1],
                                  "FEED CANCELLED"), 1500)
              ELSE s1
    IN  [s2 EXCEPT !.currentState = "MAIN_DISPLAY",
                   !.inputBuffer = <<>>,
                   !.cursorPos = 0,
                   !.pc = "service"]

\* cancelNo with the buffer reset on the way back to the edit screen.
cancelNoClearsBuffer(s) ==
    IF s.currentState = "MAIN_DISPLAY"
    THEN [delay(lcdPrint(s, "Continuing..."), 1000) EXCEPT !.pc = "service"]
    ELSE [lcdPrint(delay(lcdPrint(s, "Resuming input..."), 1000),
                   Title(s.currentState)) EXCEPT !.pc = "service",
                                                 !.inputBuffer = <<>>,
                                                 !.cursorPos = 0]

\* cancelOperation, lines 366-400: "no".
cancelNo(s) ==
    IF s.currentState = "MAIN_DISPLAY"
    THEN [delay(lcdPrint(s, "Continuing..."), 1000) EXCEPT !.pc = "service"]
    ELSE [lcdPrint(delay(lcdPrint(s, "Resuming input..."), 1000),
                   Title(s.currentState)) EXCEPT !.pc = "service"]

\* One key read by cancelOperation's loop.
cancelOperationKey(s, key) ==
    CASE key = "N" -> cancelYes(s)
      [] key = "E" -> cancelNo(s)
      [] OTHER -> s

\* escapeEdit with the typed text left in the buffer.
escapeEditKeepsBuffer(s) ==
    [s EXCEPT !.currentState = "MAIN_DISPLAY", !.pc = "service"]

\* handleKeypress, lines 278-285: escape from an edit screen.
escapeEdit(s) ==
    [s EXCEPT !.inputBuffer = <<>>,
              !.cursorPos = 0,
              !.currentState = "MAIN_DISPLAY",
              !.pc = "service"]

\* handleKeypress with the pause key honoured on every screen.
handleKeypressPauseAnywhere(s, key) ==
    IF key = "G" THEN cancelOperation(s)
    ELSE IF key = "#"
    THEN [togglePause(s) EXCEPT !.pc = "service"]
    ELSE IF s.currentState = "MAIN_DISPLAY"
    THEN IF key = "F" THEN showMenu(s) ELSE [s EXCEPT !.pc = "service"]
    ELSE IF key = "E" THEN escapeEdit(s)
    ELSE IF key = "N" THEN [processInput(s) EXCEPT !.pc = "service"]
    ELSE IF key \in DigitKeys THEN [insertOrReplace(s, key) EXCEPT !.pc = "service"]
    ELSE IF key = "*" THEN [insertOrReplace(s, ":") EXCEPT !.pc = "service"]
    ELSE IF key = "L" THEN [moveCursorLeft(s) EXCEPT !.pc = "service"]
    ELSE IF key = "R" THEN [moveCursorRight(s) EXCEPT !.pc = "service"]
    ELSE [s EXCEPT !.pc = "service"]

handleKeypress(s, key) ==
    IF key = "G" THEN cancelOperation(s)
    ELSE IF key = "#" /\ s.currentState = "MAIN_DISPLAY"
    THEN [togglePause(s) EXCEPT !.pc = "service"]
    ELSE IF s.currentState = "MAIN_DISPLAY"
    THEN IF key = "F" THEN showMenu(s) ELSE [s EXCEPT !.pc = "service"]
    ELSE IF key = "E" THEN escapeEdit(s)
    ELSE IF key = "N" THEN [processInput(s) EXCEPT !.pc = "service"]
    ELSE IF key \in DigitKeys THEN [insertOrReplace(s, key) EXCEPT !.pc = "service"]
    ELSE IF key = "*" THEN [insertOrReplace(s, ":") EXCEPT !.pc = "service"]
    ELSE IF key = "L" THEN [moveCursorLeft(s) EXCEPT !.pc = "service"]
    ELSE IF key = "R" THEN [moveCursorRight(s) EXCEPT !.pc = "service"]
    ELSE [s EXCEPT !.pc = "service"]

\* The key loop the sketch is blocked in reads one key.
blockedKey(s, key) ==
    CASE s.pc = "showMenu" -> showMenuKey(s, key)
      [] s.pc = "showFeedMenu" -> showFeedMenuKey(s, key)
      [] s.pc = "showSettingsMenu" -> showSettingsMenuKey(s, key)
      [] s.pc = "cancelOperation" -> cancelOperationKey(s, key)
      [] OTHER -> s

\* ------------------------------------------------------------------ state

VARIABLES
    currentState,
    inputBuffer,
    cursorPos,
    pumpHour,
    pumpMinute,
    pumpDuration,
    pumpActivated,
    pumpPaused,
    pumpStartTime,
    pumpElapsedBeforePause,
    feedHour,
    feedMinute,
    feedQuantity,
    feedActivated,
    feedPaused,
    feedCount,
    lastFeedTime,
    pumpTriggered,
    feedTriggered,
    eeprom,
    relay,
    servo,
    millis,
    rtc,
    pc,
    now,
    key,
    shown,
    hPumpOn,
    hLastRun,
    hPumpStarts,
    hFeedStarts,
    hDispensed,
    hSince,
    hGap,
    hFeedDone,
    hAdjusts,
    hPaused,
    script

progVars == <<currentState, inputBuffer, cursorPos, pumpHour, pumpMinute, pumpDuration, pumpActivated, pumpPaused, pumpStartTime, pumpElapsedBeforePause, feedHour, feedMinute, feedQuantity, feedActivated, feedPaused, feedCount, lastFeedTime, pumpTriggered, feedTriggered, eeprom, relay, servo, millis, rtc, pc, now, key, shown, hPumpOn, hLastRun, hPumpStarts, hFeedStarts, hDispensed, hSince, hGap, hFeedDone, hAdjusts, hPaused>>
vars == <<progVars, script>>

\* A timestamp that no path reads before writing it again is dropped from
\* the state: pumpStartTime is read only while the pump runs unpaused (loop(),
\* togglePause's pause branch) and lastFeedTime only while the feed runs
\* unpaused; startPump, startFeeding and the resume branches write them.
Forget(r) ==
    [r EXCEPT !.pumpStartTime = IF r.pumpActivated /\ ~r.pumpPaused THEN @ ELSE 0,
              !.lastFeedTime = IF r.feedActivated /\ ~r.feedPaused THEN @ ELSE 0]

\* The globals as one record, and the record written back.
Cur ==
    [currentState |-> currentState,
     inputBuffer |-> inputBuffer,
     cursorPos |-> cursorPos,
     pumpHour |-> pumpHour,
     pumpMinute |-> pumpMinute,
     pumpDuration |-> pumpDuration,
     pumpActivated |-> pumpActivated,
     pumpPaused |-> pumpPaused,
     pumpStartTime |-> pumpStartTime,
     pumpElapsedBeforePause |-> pumpElapsedBeforePause,
     feedHour |-> feedHour,
     feedMinute |-> feedMinute,
     feedQuantity |-> feedQuantity,
     feedActivated |-> feedActivated,
     feedPaused |-> feedPaused,
     feedCount |-> feedCount,
     lastFeedTime |-> lastFeedTime,
     pumpTriggered |-> pumpTriggered,
     feedTriggered |-> feedTriggered,
     eeprom |-> eeprom,
     relay |-> relay,
     servo |-> servo,
     millis |-> millis,
     rtc |-> rtc,
     pc |-> pc,
     now |-> now,
     key |-> key,
     shown |-> shown,
     hPumpOn |-> hPumpOn,
     hLastRun |-> hLastRun,
     hPumpStarts |-> hPumpStarts,
     hFeedStarts |-> hFeedStarts,
     hDispensed |-> hDispensed,
     hSince |-> hSince,
     hGap |-> hGap,
     hFeedDone |-> hFeedDone,
     hAdjusts |-> hAdjusts,
     hPaused |-> hPaused]

Commit(r) ==
    \E n \in {Forget(r)} :
        /\ currentState' = n.currentState
        /\ inputBuffer' = n.inputBuffer
        /\ cursorPos' = n.cursorPos
        /\ pumpHour' = n.pumpHour
        /\ pumpMinute' = n.pumpMinute
        /\ pumpDuration' = n.pumpDuration
        /\ pumpActivated' = n.pumpActivated
        /\ pumpPaused' = n.pumpPaused
        /\ pumpStartTime' = n.pumpStartTime
        /\ pumpElapsedBeforePause' = n.pumpElapsedBeforePause
        /\ feedHour' = n.feedHour
        /\ feedMinute' = n.feedMinute
        /\ feedQuantity' = n.feedQuantity
        /\ feedActivated' = n.feedActivated
        /\ feedPaused' = n.feedPaused
        /\ feedCount' = n.feedCount
        /\ lastFeedTime' = n.lastFeedTime
        /\ pumpTriggered' = n.pumpTriggered
        /\ feedTriggered' = n.feedTriggered
        /\ eeprom' = n.eeprom
        /\ relay' = n.relay
        /\ servo' = n.servo
        /\ millis' = n.millis
        /\ rtc' = n.rtc
        /\ pc' = n.pc
        /\ now' = n.now
        /\ key' = n.key
        /\ shown' = n.shown
        /\ hPumpOn' = n.hPumpOn
        /\ hLastRun' = n.hLastRun
        /\ hPumpStarts' = n.hPumpStarts
        /\ hFeedStarts' = n.hFeedStarts
        /\ hDispensed' = n.hDispensed
        /\ hSince' = n.hSince
        /\ hGap' = n.hGap
        /\ hFeedDone' = n.hFeedDone
        /\ hAdjusts' = n.hAdjusts
        /\ hPaused' = n.hPaused

InitFrom(r) ==
    /\ currentState = r.currentState
    /\ inputBuffer = r.inputBuffer
    /\ cursorPos = r.cursorPos
    /\ pumpHour = r.pumpHour
    /\ pumpMinute = r.pumpMinute
    /\ pumpDuration = r.pumpDuration
    /\ pumpActivated = r.pumpActivated
    /\ pumpPaused = r.pumpPaused
    /\ pumpStartTime = r.pumpStartTime
    /\ pumpElapsedBeforePause = r.pumpElapsedBeforePause
    /\ feedHour = r.feedHour
    /\ feedMinute = r.feedMinute
    /\ feedQuantity = r.feedQuantity
    /\ feedActivated = r.feedActivated
    /\ feedPaused = r.feedPaused
    /\ feedCount = r.feedCount
    /\ lastFeedTime = r.lastFeedTime
    /\ pumpTriggered = r.pumpTriggered
    /\ feedTriggered = r.feedTriggered
    /\ eeprom = r.eeprom
    /\ relay = r.relay
    /\ servo = r.servo
    /\ millis = r.millis
    /\ rtc = r.rtc
    /\ pc = r.pc
    /\ now = r.now
    /\ key = r.key
    /\ shown = r.shown
    /\ hPumpOn = r.hPumpOn
    /\ hLastRun = r.hLastRun
    /\ hPumpStarts = r.hPumpStarts
    /\ hFeedStarts = r.hFeedStarts
    /\ hDispensed = r.hDispensed
    /\ hSince = r.hSince
    /\ hGap = r.hGap
    /\ hFeedDone = r.hFeedDone
    /\ hAdjusts = r.hAdjusts
    /\ hPaused = r.hPaused

\* DateTime now = rtc.now(), of which the sketch reads hour and minute.
Snapshot(t) == [hour |-> t.hour, minute |-> t.minute]


\* setup(): its welcome screen is held for two seconds.
SetupMs == 2000

\* The state setup() leaves behind, for settings cfg (the sketch's defaults
\* or what loadSettings found stored) and an RTC reading clock.
AfterSetup(cfg, clock) ==
    saveSettings(
      [currentState |-> "MAIN_DISPLAY", inputBuffer |-> <<>>, cursorPos |-> 0,
       pumpHour |-> cfg.pumpHour, pumpMinute |-> cfg.pumpMinute,
       pumpDuration |-> cfg.pumpDuration,
       pumpActivated |-> FALSE, pumpPaused |-> FALSE,
       pumpStartTime |-> 0, pumpElapsedBeforePause |-> 0,
       feedHour |-> cfg.feedHour, feedMinute |-> cfg.feedMinute,
       feedQuantity |-> cfg.feedQuantity,
       feedActivated |-> FALSE, feedPaused |-> FALSE, feedCount |-> 0,
       lastFeedTime |-> 0, pumpTriggered |-> FALSE, feedTriggered |-> FALSE,
       eeprom |-> [a \in 0..8 |-> 255],
       relay |-> "HIGH", servo |-> SERVO_REST_POS,
       millis |-> SetupMs, rtc |-> clock,
       pc |-> "loop", now |-> Snapshot(clock), key |-> NoKey, shown |-> <<>>,
       hPumpOn |-> 0, hLastRun |-> NoRun,
       hPumpStarts |-> NoStart, hFeedStarts |-> NoStart,
       hDispensed |-> 0, hSince |-> -1, hGap |-> -1,
       hFeedDone |-> NoFeed, hAdjusts |-> 0, hPaused |-> FALSE])

\* The sketch's own defaults (lines 100-112).
Defaults ==
    [pumpHour |-> 8, pumpMinute |-> 0, pumpDuration |-> 30,
     feedHour |-> 9, feedMinute |-> 0, feedQuantity |-> 3]

Midnight == [day |-> 0, hour |-> 0, minute |-> 0, ms |-> 0]

\* ---------------------------------------------------------------- actions

\* A digit or separator key is typed only while the buffer is shorter than n.
Room(k, n) ==
    (k \in DigitKeys \cup {"*"} /\ currentState # "MAIN_DISPLAY"
       /\ cursorPos >= Len(inputBuffer)) => Len(inputBuffer) < n

\* The operator commits nothing: Enter is pressed on no edit screen.
Browsing(k) == k = "N" => currentState = "MAIN_DISPLAY"

\* On an edit screen the operator types no other digit than those of ds.
Typing(k, ds) ==
    (k \in DigitKeys /\ currentState # "MAIN_DISPLAY") => k \in ds

\* A step that reads the keypad starts with the outputs of the step before
\* wiped: what was shown, and which runs were completed.
Begin(s, k) ==
    [s EXCEPT !.key = k, !.shown = <<>>, !.hLastRun = NoRun, !.hFeedDone = NoFeed]

\* A pass of loop() in which getKey() returns nothing; dt ms went by since
\* the pass before.
Idle(dt) ==
    /\ pc = "loop"
    /\ LET s == delay(Cur, dt)
       IN  Commit([Begin(s, NoKey) EXCEPT !.now = Snapshot(s.rtc),
                                          !.pc = "service"])

\* A pass of loop() in which getKey() returns k: handleKeypress(k).
Press(k) ==
    /\ pc = "loop"
    /\ Commit(handleKeypress([Begin(Cur, k) EXCEPT !.now = Snapshot(rtc)], k))

\* A blocking key loop polls and finds no key for one quantum.
BlockedWait ==
    /\ pc \in Blocking
    /\ Commit(delay(Begin(Cur, NoKey), DispenseHoldMs))

\* A blocking key loop reads k.
BlockedKey(k) ==
    /\ pc \in Blocking
    /\ Commit(blockedKey(Begin(Cur, k), k))

\* The rest of the pass of loop(): schedule monitor, then the actuators.
Service ==
    /\ pc = "service"
    /\ Commit(loopService(Cur))

\* A step of an operator who follows no script, before the horizon hz.
Free(hz, A) == millis < hz /\ UNCHANGED script /\ A

\* The operator's script: the keys to press, which one is next, and what the
\* script was written to do (plan).
NoScript == [keys |-> <<>>, at |-> 1, plan |-> <<"none">>]
Script(keys, plan) == [keys |-> keys, at |-> 1, plan |-> plan]
ScriptDone == script.at > Len(script.keys)
ScriptKey == script.keys[script.at]

\* A step that takes the next key of the script.
Follow(A) ==
    /\ ~ScriptDone
    /\ script' = [script EXCEPT !.at = @ + 1]
    /\ A

\* A pass of loop() made between two keys of a script, or after its last.
Serve == UNCHANGED script /\ Service

\* ------------------------------------------------- operation: runs and pause

\* Stored settings the runs are explored with: both schedules on the dial.
RunSettings ==
    {[pumpHour |-> 0, pumpMinute |-> 0, pumpDuration |-> d,
      feedHour |-> 0, feedMinute |-> 0, feedQuantity |-> q] :
        d \in {2, 4}, q \in {2, 3}}

InitRun ==
    /\ \E cfg \in RunSettings : InitFrom(AfterSetup(cfg, Midnight))
    /\ script = NoScript

RunKeys == {"#", "G", "N", "E"}

NextRun ==
    \/ \E dt \in {0, DispenseHoldMs} : Free(RunMillis, Idle(dt))
    \/ \E k \in RunKeys : Free(RunMillis, Press(k))
    \/ Free(RunMillis, BlockedWait)
    \/ \E k \in RunKeys : Free(RunMillis, BlockedKey(k))
    \/ Free(RunMillis, Service)

SpecRun == InitRun /\ [][NextRun]_vars

\* --------------------------------------- operation: pause / resume only

PauseSettings ==
    {[pumpHour |-> 0, pumpMinute |-> 0, pumpDuration |-> d,
      feedHour |-> 0, feedMinute |-> 1, feedQuantity |-> 2] : d \in {3, 6}}

InitPause ==
    /\ \E cfg \in PauseSettings : InitFrom(AfterSetup(cfg, Midnight))
    /\ script = NoScript

NextPause ==
    \/ \E dt \in {0, DispenseHoldMs} : Free(MaxMillis, Idle(dt))
    \/ Free(MaxMillis, Press("#"))
    \/ Free(MaxMillis, Service)

SpecPause == InitPause /\ [][NextPause]_vars

\* ----------------------------------------- operation: typing into a field

\* The keys that lead from the main display to a field's edit screen.
Nav(state) ==
    CASE state = "SET_PUMP_TIME" -> <<"F", "1">>
      [] state = "SET_PUMP_DURATION" -> <<"F", "2">>
      [] state = "SET_FEED_TIME" -> <<"F", "D", "3">>
      [] state = "SET_FEED_QUANTITY" -> <<"F", "D", "4">>
      [] state = "SET_CURRENT_TIME" -> <<"F", "D", "D", "5">>

\* h*m as the operator types it: two digits, the separator, two digits.
TwoDigits(n) == <<DigitChar(n \div 10), DigitChar(n % 10)>>
TypeTime(state, h, m) ==
    Script(Nav(state) \o TwoDigits(h) \o <<"*">> \o TwoDigits(m) \o <<"N">>,
           <<"time", state, h, m>>)

\* Digits without a separator, sent to a time field.
PlainDigits == {"0", "5", "9"}
PlainTexts == UNION {[1..n -> PlainDigits] : n \in 0..MaxBuf}
TypePlain(state, text) ==
    Script(Nav(state) \o text \o <<"N">>, <<"plain", state>>)

TypeScripts ==
    {TypeTime(f, h, m) : f \in TimeStates, h \in 0..23, m \in 0..59}
    \cup {TypePlain(f, x) : f \in TimeStates, x \in PlainTexts}

InitType ==
    /\ InitFrom(AfterSetup(Defaults, Midnight))
    /\ script \in TypeScripts

NextType ==
    \/ Follow(Press(ScriptKey))
    \/ Follow(BlockedKey(ScriptKey))
    \/ Serve

SpecType == InitType /\ [][NextType]_vars

\* ----------------------------------------- operation: one edit after another

\* What the operator may type into a field before Enter.
EditTexts ==
    {<<>>, <<"0">>, <<"5">>, <<"7", "*", "3", "0">>, <<"9", "9", "*", "0", "0">>}

\* Two commits; Escape between them leaves the first screen if its commit
\* was rejected, and does nothing on the main display.
TypeTwo(f1, x1, f2, x2) ==
    Script(Nav(f1) \o x1 \o <<"N", "E">> \o Nav(f2) \o x2 \o <<"N">>,
           <<"two", f1, f2>>)

EditScripts ==
    {TypeTwo(f1, x1, f2, x2) : f1 \in EditStates, x1 \in EditTexts,
                               f2 \in EditStates, x2 \in EditTexts}

InitEdit ==
    /\ InitFrom(AfterSetup(Defaults, Midnight))
    /\ script \in EditScripts

NextEdit ==
    \/ Follow(Press(ScriptKey))
    \/ Follow(BlockedKey(ScriptKey))
    \/ Serve

SpecEdit == InitEdit /\ [][NextEdit]_vars

\* ------------------------------------------------ operation: the navigator

\* The pump, the feed or both are due at once, so that runs are under way
\* while the operator walks the menus.
NavSettings ==
    {[pumpHour |-> ph, pumpMinute |-> 0, pumpDuration |-> 6,
      feedHour |-> fh, feedMinute |-> 0, feedQuantity |-> 2] :
        ph \in {0, 1}, fh \in {0, 1}} \
    {[pumpHour |-> 1, pumpMinute |-> 0, pumpDuration |-> 6,
      feedHour |-> 1, feedMinute |-> 0, feedQuantity |-> 2]}

InitNav ==
    /\ \E cfg \in NavSettings : InitFrom(AfterSetup(cfg, Midnight))
    /\ script = NoScript

NavKeys == {"F", "1", "2", "3", "4", "5", "D", "U", "G", "N", "E", "#", "*", "L", "R"}
NavDigits == {"1"}

NextNav ==
    \/ Free(NavMillis, Idle(DispenseHoldMs))
    \/ \E k \in NavKeys :
           /\ Room(k, NavBuf) /\ Typing(k, NavDigits) /\ Browsing(k)
           /\ Free(NavMillis, Press(k))
    \/ Free(NavMillis, BlockedWait)
    \/ \E k \in NavKeys : Free(NavMillis, BlockedKey(k))
    \/ Free(NavMillis, Service)

SpecNav == InitNav /\ [][NextNav]_vars

\* --------------------------------- operation: the quantity edited mid-run

FeedEditSettings ==
    [pumpHour |-> 1, pumpMinute |-> 0, pumpDuration |-> 2,
     feedHour |-> 0, feedMinute |-> 0, feedQuantity |-> 3]

InitFeedEdit ==
    /\ InitFrom(AfterSetup(FeedEditSettings, Midnight))
    /\ script = NoScript

FeedEditKeys == {"F", "D", "4", "1", "N", "#"}

NextFeedEdit ==
    \/ Free(FeedMillis, Idle(DispenseHoldMs))
    \/ \E k \in FeedEditKeys :
           Room(k, MaxBuf) /\ Typing(k, {"1"}) /\ Free(FeedMillis, Press(k))
    \/ Free(FeedMillis, BlockedWait)
    \/ \E k \in FeedEditKeys : Free(FeedMillis, BlockedKey(k))
    \/ Free(FeedMillis, Service)

SpecFeedEdit == InitFeedEdit /\ [][NextFeedEdit]_vars

\* ------------------------------ operation: the schedule edited as it runs

\* The pump is due at 1:00 and the clock reads 1:00.
SchedSettings ==
    [pumpHour |-> 1, pumpMinute |-> 0, pumpDuration |-> 2,
     feedHour |-> 1, feedMinute |-> 1, feedQuantity |-> 1]

OneOClock == [day |-> 0, hour |-> 1, minute |-> 0, ms |-> 0]

InitSched ==
    /\ InitFrom(AfterSetup(SchedSettings, OneOClock))
    /\ script = NoScript

SchedKeys == {"F", "1", "*", "N"}

NextSched ==
    \/ Free(SchedMillis, Idle(DispenseHoldMs))
    \/ \E k \in SchedKeys :
           Room(k, MaxBuf) /\ Typing(k, {"1"}) /\ Free(SchedMillis, Press(k))
    \/ Free(SchedMillis, BlockedWait)
    \/ \E k \in SchedKeys : Free(SchedMillis, BlockedKey(k))
    \/ Free(SchedMillis, Service)

SpecSched == InitSched /\ [][NextSched]_vars

\* ------------------------------------- operation: scripted key sequences

\* What a script types into a field before Enter: every text of digits 0, 7
\* and separators up to CommitLen keys.
CommitChars == {"0", "7", "*"}
CommitTexts == UNION {[1..n -> CommitChars] : n \in 0..CommitLen}
TypeText(state, text) ==
    Script(Nav(state) \o text \o <<"N">>, <<"text", state>>)

\* The keys that lead from the main display into a menu, and what a script
\* presses there.
MenuPath(m) ==
    CASE m = "showMenu" -> <<"F">>
      [] m = "showFeedMenu" -> <<"F", "D">>
      [] m = "showSettingsMenu" -> <<"F", "D", "D">>
MenuTails == UNION {[1..n -> {"G", "E", "U", "D", "N"}] : n \in 0..2}
WalkMenu(m, tail) == Script(MenuPath(m) \o tail, <<"menu", m, tail>>)

\* One key held: k typed n times into a field, without Enter.
TypeLong(state, k, n) ==
    Script(Nav(state) \o [i \in 1..n |-> k], <<"long", state>>)

KeyScripts ==
    {TypeText(f, x) : f \in EditStates, x \in CommitTexts}
    \cup {WalkMenu(m, x) : m \in Blocking \ {"cancelOperation"}, x \in MenuTails}
    \cup {TypeLong(f, k, n) : f \in EditStates, k \in {"7", "*"}, n \in 0..LongLen}

InitKeys ==
    /\ InitFrom(AfterSetup(Defaults, Midnight))
    /\ script \in KeyScripts

NextKeys ==
    \/ Follow(Press(ScriptKey))
    \/ Follow(BlockedKey(ScriptKey))
    \/ Serve

SpecKeys == InitKeys /\ [][NextKeys]_vars

\* --------------------------- operation: a run that lasts into the next day

\* Both schedules are due at 0:00.  The short runs last into the next day
\* only if paused, the long ones also if left running.
RestartSettings ==
    {[pumpHour |-> 0, pumpMinute |-> 0, pumpDuration |-> 6,
      feedHour |-> 0, feedMinute |-> 0, feedQuantity |-> 2],
     [pumpHour |-> 0, pumpMinute |-> 0, pumpDuration |-> 45,
      feedHour |-> 0, feedMinute |-> 0, feedQuantity |-> 20]}

InitRestart ==
    /\ \E cfg \in RestartSettings : InitFrom(AfterSetup(cfg, Midnight))
    /\ script = NoScript

NextRestart ==
    \/ Free(RestartMillis, Idle(DispenseHoldMs))
    \/ Free(RestartMillis, Press("#"))
    \/ Free(RestartMillis, Service)

SpecRestart == InitRestart /\ [][NextRestart]_vars

\* ------------------------------ operation: typing, commits and ways out

\* The operator opens the pump's edit screens, types 1 and the separator,
\* moves the cursor, commits, escapes and cancels, in any order.
BufferKeys == {"F", "1", "2", "*", "L", "N", "E", "G"}

InitBuffer ==
    /\ InitFrom(AfterSetup(Defaults, Midnight))
    /\ script = NoScript

NextBuffer ==
    \/ Free(BufferMillis, Idle(DispenseHoldMs))
    \/ \E k \in BufferKeys :
           Room(k, NavBuf) /\ Typing(k, {"1"}) /\ Free(BufferMillis, Press(k))
    \/ Free(BufferMillis, BlockedWait)
    \/ \E k \in BufferKeys : Free(BufferMillis, BlockedKey(k))
    \/ Free(BufferMillis, Service)

SpecBuffer == InitBuffer /\ [][NextBuffer]_vars

\* ------------------------------------------------------------------ claims

\* The settings as loadSettings would read them back.
Stored == Persisted(eeprom)

\* C1: h*m typed as two digits, separator, two digits and Enter on a fresh
\* time edit screen stores h:m in the field (and, for the schedules, in the
\* EEPROM) and ends on the main display.
C1_TypedTimeStored ==
    (ScriptDone /\ script.plan[1] = "time") =>
        LET f == script.plan[2]
            h == script.plan[3]
            m == script.plan[4]
        IN  /\ currentState = "MAIN_DISPLAY"
            /\ inputBuffer = <<>>
            /\ f = "SET_PUMP_TIME" =>
                   /\ pumpHour = h /\ pumpMinute = m
                   /\ Stored.pumpHour = h /\ Stored.pumpMinute = m
            /\ f = "SET_FEED_TIME" =>
                   /\ feedHour = h /\ feedMinute = m
                   /\ Stored.feedHour = h /\ Stored.feedMinute = m
            /\ f = "SET_CURRENT_TIME" =>
                   /\ rtc.hour = h /\ rtc.minute = m /\ hAdjusts = 1

\* The clock was set to 23:59 by the script.
C1_Witness ==
    /\ ScriptDone
    /\ script.plan = <<"time", "SET_CURRENT_TIME", 23, 59>>
    /\ rtc.hour = 23 /\ rtc.minute = 59

\* The step is Enter pressed on a time edit screen whose buffer holds no
\* separator.
C2_EnterNoSeparator ==
    /\ pc = "loop"
    /\ currentState \in TimeStates
    /\ indexOf(inputBuffer, ":") = -1
    /\ pc' = "service"
    /\ key' = "N"

\* C2: Enter on a time edit screen whose buffer holds no separator changes
\* no setting, nothing stored and not the clock (which only runs on), and
\* leaves the same screen with the buffer empty and the cursor at 0.
C2_NoSeparatorChangesNothing ==
    [][C2_EnterNoSeparator =>
          /\ UNCHANGED <<pumpHour, pumpMinute, pumpDuration,
                         feedHour, feedMinute, feedQuantity, eeprom, hAdjusts>>
          /\ rtc' = RtcAdvance(rtc, millis' - millis)
          /\ currentState' = currentState
          /\ inputBuffer' = <<>>
          /\ cursorPos' = 0]_vars

\* The format hint was shown for the digits 9 5 0 sent to the clock screen.
C2_Witness ==
    /\ script.plan = <<"plain", "SET_CURRENT_TIME">>
    /\ script.keys = Nav("SET_CURRENT_TIME") \o <<"9", "5", "0", "N">>
    /\ ScriptDone
    /\ shown = <<"Use * for time!", Title("SET_CURRENT_TIME")>>

\* The longest stretch between two looks at the running pump's elapsed time
\* with only the pause key in use: the dispense hold and the feed's closing
\* dwell after one look, a quantum between passes, and the feed's opening
\* dwell before the next look.
LoopStepMs == DispenseHoldMs + 2000 + DispenseHoldMs + 1500

\* C3: a pump run that is only ever paused and resumed has had its relay on
\* for the configured duration, to within one loop step, when it completes.
C3_OnTimeEqualsDuration ==
    hLastRun # NoRun =>
        /\ hLastRun.on >= hLastRun.dur * 1000
        /\ hLastRun.on <= hLastRun.dur * 1000 + LoopStepMs

\* What C4 says of a state: a completed run made as many dispenses as the
\* quantity, none within two seconds of the one before, and left the feed
\* idle with feedCount 0; a run under way has dispensed feedCount times.
C4_FeedState ==
    /\ hFeedDone # NoFeed =>
           /\ hFeedDone.n = feedQuantity
           /\ hFeedDone.gap >= FeedIntervalMs
           /\ ~feedActivated
           /\ feedCount = 0
    /\ feedActivated => hDispensed = feedCount /\ feedCount < feedQuantity
    /\ hGap = -1 \/ hGap >= FeedIntervalMs

\* The step dispenses.
C4_Dispensed == hDispensed' > hDispensed \/ hFeedDone' # NoFeed

\* C4: a feed run dispenses exactly its quantity, never twice within two
\* seconds and never while paused, and is Idle with feedCount 0 afterwards.
C4_FeedRun ==
    /\ []C4_FeedState
    /\ [][C4_Dispensed => ~feedPaused /\ ~feedPaused']_vars

\* A run of three dispenses that was paused and resumed on its way.
C4_Witness == hFeedDone # NoFeed /\ hFeedDone.n = 3 /\ hFeedDone.paused

\* C5: no clock minute has two starts of the pump, or of the feed, whatever
\* keys are pressed.
C5_OneStartPerMinute == hPumpStarts.n <= 1 /\ hFeedStarts.n <= 1

\* The step is "no" answered in the overlay opened on an edit screen.
C6_NoAnswered ==
    /\ pc = "cancelOperation"
    /\ currentState \in EditStates
    /\ key' = "E"

\* C6 as stated: "no" in the overlay opened on an edit screen returns to
\* that screen with the buffer empty and the cursor at 0.
C6_NoClearsBuffer ==
    [][C6_NoAnswered =>
          /\ currentState' = currentState
          /\ inputBuffer' = <<>>
          /\ cursorPos' = 0]_vars

\* C6, amended: the cancel key on an edit screen opens the overlay, and "no"
\* returns to the same edit screen, with the buffer and the cursor exactly
\* as they were when the cancel key was pressed; the prompt is drawn again.
C6_NoKeepsBuffer ==
    [][/\ (pc = "loop" /\ currentState \in EditStates /\ key' = "G") =>
              /\ pc' = "cancelOperation"
              /\ UNCHANGED <<currentState, inputBuffer, cursorPos>>
       /\ (pc = "cancelOperation" /\ currentState \in EditStates /\ key' # "N") =>
              UNCHANGED <<currentState, inputBuffer, cursorPos>>
       /\ C6_NoAnswered =>
              /\ pc' = "service"
              /\ shown' = <<"Resuming input...", Title(currentState)>>
      ]_vars

\* "no" was answered on the pump time screen with 1* typed and the cursor
\* moved back onto the separator.
C6_Witness ==
    /\ key = "E"
    /\ shown = <<"Resuming input...", Title("SET_PUMP_TIME")>>
    /\ currentState = "SET_PUMP_TIME"
    /\ inputBuffer = <<"1", ":">>
    /\ cursorPos = 1

\* C7: the stored settings are in range in every state.
C7_StoredInRange ==
    /\ Stored.pumpHour \in 0..23 /\ Stored.pumpMinute \in 0..59
    /\ Stored.feedHour \in 0..23 /\ Stored.feedMinute \in 0..59
    /\ Stored.pumpDuration > 0
    /\ Stored.feedQuantity \in 1..999

\* C8: feedCount never exceeds feedQuantity, and a completed feed run left
\* feedActivated false and feedCount 0.
C8_CountWithinQuantity ==
    /\ feedCount <= feedQuantity
    /\ hFeedDone # NoFeed => ~feedActivated /\ feedCount = 0

\* The step is "yes" answered in the overlay.
C9_YesAnswered == pc = "cancelOperation" /\ key' = "N"

\* C9: "yes" in the cancel overlay leaves the pump idle with the relay off,
\* the feed idle with the servo at rest, the buffer empty and the main
\* display, whichever screen the overlay was opened on.
C9_YesStopsEverything ==
    [][C9_YesAnswered =>
          /\ ~pumpActivated' /\ ~pumpPaused'
          /\ pumpElapsedBeforePause' = 0
          /\ relay' = "HIGH"
          /\ ~feedActivated' /\ ~feedPaused'
          /\ feedCount' = 0
          /\ servo' = SERVO_REST_POS
          /\ inputBuffer' = <<>> /\ cursorPos' = 0
          /\ currentState' = "MAIN_DISPLAY"
          /\ pc' = "service"]_vars

\* "yes" has just cancelled a pump run and a feed run.
C9_Witness ==
    /\ key = "N"
    /\ shown = <<"PUMP STOPPED", "PUMP CANCELLED", "FEED CANCELLED">>
    /\ currentState = "MAIN_DISPLAY"

\* The step reads the pause key in a menu, in the cancel overlay or on an
\* edit screen.
C10_PauseKeyElsewhere ==
    /\ key' = "#"
    /\ pc \in Blocking \/ (pc = "loop" /\ currentState # "MAIN_DISPLAY")

\* C10: the pause key read in a menu, in the cancel overlay or on an edit
\* screen changes nothing of the runs, the buffer or the navigator.
C10_PauseOnlyOnMainDisplay ==
    [][C10_PauseKeyElsewhere =>
          /\ UNCHANGED <<pumpActivated, pumpPaused, pumpStartTime,
                         pumpElapsedBeforePause, relay, hPumpOn,
                         feedActivated, feedPaused, feedCount, lastFeedTime,
                         servo, millis, rtc,
                         inputBuffer, cursorPos, currentState>>
          /\ pc' = IF pc = "loop" THEN "service" ELSE pc]_vars

\* The pause key was pressed on an edit screen while the pump was running.
C10_Witness ==
    /\ key = "#"
    /\ currentState \in EditStates
    /\ pc = "service"
    /\ pumpActivated /\ ~pumpPaused

\* How often ch occurs in str.
C11_Count(str, ch) == Cardinality({i \in 1..Len(str) : str[i] = ch})

\* The buffer holds exactly one separator, not in front, with an hour in
\* 0..23 before it and a minute in 0..59 after it (no digits read as 0).
C11_WellFormed(buf) ==
    LET p == indexOf(buf, ":")
    IN  /\ C11_Count(buf, ":") = 1
        /\ p > 0
        /\ atolFrom(substring(buf, 0, p), 1, 0) \in 0..23
        /\ atolFrom(substringFrom(buf, p + 1), 1, 0) \in 0..59

\* The step is Enter pressed on a time edit screen.
C11_TimeCommit ==
    /\ pc = "loop"
    /\ currentState \in TimeStates
    /\ key' = "N"
    /\ pc' = "service"

\* C11: Enter on a time edit screen is accepted (the screen is left for the
\* main display) if and only if the buffer holds exactly one separator, at a
\* position > 0, with an hour in 0..23 before it and a minute in 0..59 after
\* it; a buffer with two or more separators is rejected.
C11_AcceptedIffWellFormed ==
    [][C11_TimeCommit =>
          ((currentState' = "MAIN_DISPLAY") <=> C11_WellFormed(inputBuffer))]_vars

\* The whole buffer reads as a decimal integer: digits only, at least one.
C12_Decimal(buf) == buf # <<>> /\ \A i \in 1..Len(buf) : buf[i] \in DigitKeys

\* The step is Enter pressed on the pump-duration screen.
C12_DurationCommit ==
    /\ pc = "loop"
    /\ currentState = "SET_PUMP_DURATION"
    /\ key' = "N"
    /\ pc' = "service"

\* C12: Enter on the pump-duration screen is accepted only if the whole
\* buffer reads as a decimal integer greater than 0, pumpDuration is then
\* that integer, and every such integer that fits the 16-bit int is accepted.
C12_AcceptedIffPositive ==
    [][C12_DurationCommit =>
          /\ (currentState' = "MAIN_DISPLAY") =>
                 /\ C12_Decimal(inputBuffer)
                 /\ atolFrom(inputBuffer, 1, 0) > 0
                 /\ pumpDuration' = atolFrom(inputBuffer, 1, 0)
          /\ (C12_Decimal(inputBuffer)
                /\ atolFrom(inputBuffer, 1, 0) \in 1..32767) =>
                 currentState' = "MAIN_DISPLAY"]_vars

\* The step is Enter on the pump-time or feed-time screen, rejected as out of
\* range.
C13_OutOfRange ==
    /\ pc = "loop"
    /\ currentState \in {"SET_PUMP_TIME", "SET_FEED_TIME"}
    /\ key' = "N"
    /\ shown' = <<"Invalid Time!", Title(currentState)>>

\* C13: a commit on the pump-time or feed-time screen rejected as out of
\* range leaves pumpHour, pumpMinute, feedHour and feedMinute as they were.
C13_RejectedKeepsSchedule ==
    [][C13_OutOfRange =>
          UNCHANGED <<pumpHour, pumpMinute, feedHour, feedMinute>>]_vars

\* C14: the cancel key pressed in the top, feed or settings menu and then
\* answered "no" leaves that same menu active again, not the main display.
C14_NoReturnsToMenu ==
    (/\ ScriptDone
     /\ script.plan[1] = "menu"
     /\ script.plan[3] = <<"G", "E">>) => pc = script.plan[2]

\* C15: the escape key leads one level up from a submenu (feed menu to top
\* menu, settings menu to feed menu), and to the main display from the top
\* menu and from an edit screen.
C15_EscapeOneLevelUp ==
    [][key' = "E" =>
          /\ pc = "showFeedMenu" => pc' = "showMenu"
          /\ pc = "showSettingsMenu" => pc' = "showFeedMenu"
          /\ pc = "showMenu" =>
                 pc' = "service" /\ currentState' = "MAIN_DISPLAY"
          /\ (pc = "loop" /\ currentState \in EditStates) =>
                 pc' = "service" /\ currentState' = "MAIN_DISPLAY"]_vars

\* C16: in no reachable state, a menu or the cancel overlay being open
\* included, is the relay on with the run's on-time more than one loop step
\* beyond the configured duration.
C16_OnTimeBounded ==
    relay = "LOW" => hPumpOn <= pumpDuration * 1000 + LoopStepMs

\* The step is the pass of loop() in which the pump schedule matches with
\* its latch clear while a pump run is active.
C17_PumpDue ==
    /\ pc = "service"
    /\ now.hour = pumpHour /\ now.minute = pumpMinute
    /\ ~pumpTriggered
    /\ pumpActivated

\* The same for the feed schedule and an active feed run.
C17_FeedDue ==
    /\ pc = "service"
    /\ now.hour = feedHour /\ now.minute = feedMinute
    /\ ~feedTriggered
    /\ feedActivated

\* C17: a pump schedule match with the latch clear restarts an active pump
\* run, running or paused (elapsed 0, start timestamp now, not paused, relay
\* on); a feed schedule match while a feed run is active starts nothing and
\* leaves feedPaused and, but for the pass's own dispense, feedCount alone.
C17_PumpRestartsFeedDoesNot ==
    [][/\ C17_PumpDue =>
              /\ hPumpStarts' # hPumpStarts
              /\ pumpActivated' /\ ~pumpPaused'
              /\ pumpElapsedBeforePause' = 0
              /\ pumpStartTime' = millis
              /\ relay' = "LOW"
              /\ pumpTriggered'
       /\ C17_FeedDue =>
              /\ hFeedStarts' = hFeedStarts
              /\ \A i \in 1..Len(shown') : shown'[i] # "FEEDING STARTED"
              /\ feedPaused' = feedPaused
              /\ feedPaused => feedActivated' /\ feedCount' = feedCount
              /\ \/ feedCount' = feedCount
                 \/ hDispensed' # hDispensed
                 \/ hFeedDone' # NoFeed
      ]_vars

\* The next day's match has just restarted the six-second pump run, paused
\* since the day before, and left the paused feed run as it was.
C17_Witness ==
    /\ hPumpStarts.at = <<1, 0, 0>>
    /\ shown = <<"PUMP STARTED">>
    /\ pumpDuration = 6
    /\ hPumpOn > 1500
    /\ pumpActivated /\ ~pumpPaused /\ relay = "LOW"
    /\ feedActivated /\ feedPaused
    /\ hFeedStarts.at = <<0, 0, 0>>

\* C18, for the pump (the first run the schedule monitor looks at in a pass
\* of loop()): a pump run is started only while the clock reads the
\* configured start hour and minute, also in a pass whose key handler
\* blocked in a menu or in the cancel overlay.
C18_StartsOnTheMinute ==
    hPumpStarts # NoStart =>
        hPumpStarts.at[2] = pumpHour /\ hPumpStarts.at[3] = pumpMinute

\* The cursor lies in the buffer or just behind it.
C19_Bounds == 0 <= cursorPos /\ cursorPos <= Len(inputBuffer)

\* The step is loop() handing a key to handleKeypress on an edit screen.
C19_EditKey ==
    /\ pc = "loop"
    /\ currentState \in EditStates
    /\ pc' = "service"

\* What the keys of C19 do to the buffer and the cursor in one step.
C19_KeyEffect ==
    LET ch == IF key' = "*" THEN ":" ELSE key'
    IN  /\ (key' \in DigitKeys \cup {"*"} /\ cursorPos < Len(inputBuffer)) =>
               /\ Len(inputBuffer') = Len(inputBuffer)
               /\ inputBuffer'[cursorPos + 1] = ch
               /\ \A i \in 1..Len(inputBuffer) :
                      i # cursorPos + 1 => inputBuffer'[i] = inputBuffer[i]
               /\ cursorPos' = cursorPos + 1
        /\ (key' \in DigitKeys \cup {"*"} /\ cursorPos >= Len(inputBuffer)) =>
               /\ inputBuffer' = Append(inputBuffer, ch)
               /\ cursorPos' = Len(inputBuffer) + 1
        /\ key' = "L" =>
               /\ inputBuffer' = inputBuffer
               /\ cursorPos' = IF cursorPos = 0 THEN 0 ELSE cursorPos - 1
        /\ key' = "R" =>
               /\ inputBuffer' = inputBuffer
               /\ cursorPos' = IF cursorPos = Len(inputBuffer)
                               THEN cursorPos ELSE cursorPos + 1

\* C19: on an edit screen a digit or separator key overwrites the character
\* at the cursor and advances the cursor when the cursor is inside the
\* buffer, and appends when it is at the end; left and right move the cursor
\* by one and do nothing at 0 and at the length; the cursor is within
\* 0..length in every state.
C19_CursorEditing ==
    /\ []C19_Bounds
    /\ [][C19_EditKey => C19_KeyEffect]_vars

\* The separator has just overwritten the first of two typed digits.
C19_Witness ==
    /\ key = "*"
    /\ pc = "service"
    /\ currentState \in EditStates
    /\ inputBuffer = <<":", "1">>
    /\ cursorPos = 1

\* C20: on every edit screen the prompt and the buffer together fit the 16
\* columns of the display row, whatever digits and separators are typed.
C20_BufferFitsRow ==
    currentState \in EditStates =>
        promptLen(currentState) + Len(inputBuffer) <= LcdCols

\* C21: in every state the relay is on if and only if a pump run is active
\* and not paused, across scheduled starts, pause and resume, completion
\* and cancel.
C21_RelayFollowsRun ==
    (relay = "LOW") <=> (pumpActivated /\ ~pumpPaused)

\* The pause key has just resumed a paused pump run: the relay is on again.
C21_Witness ==
    /\ key = "#"
    /\ shown # <<>>
    /\ shown[1] = "PUMP RESUMED"
    /\ pumpActivated /\ ~pumpPaused
    /\ relay = "LOW"

\* The buffer is empty and the cursor at 0.
C22_Empty == inputBuffer = <<>> /\ cursorPos = 0

\* C22: while the navigator is in MainDisplay, a menu opened from it being
\* shown included, the buffer is empty and the cursor at 0 (nothing typed is
\* left behind by escape, an accepted commit or a confirmed cancel), and no
\* step taken there changes them.
C22_MainDisplayBufferEmpty ==
    /\ [](currentState = "MAIN_DISPLAY" => C22_Empty)
    /\ [][currentState = "MAIN_DISPLAY" =>
              UNCHANGED <<inputBuffer, cursorPos>>]_vars

\* The typed duration 11 has just been accepted: the main display is back
\* and nothing of the text is left.
C22_Witness ==
    /\ key = "N"
    /\ shown = <<"Duration Set!">>
    /\ pumpDuration = 11
    /\ currentState = "MAIN_DISPLAY"
    /\ C22_Empty

\* The step is the pause key pressed on the main display.
C23_PausePressed ==
    /\ pc = "loop"
    /\ currentState = "MAIN_DISPLAY"
    /\ key' = "#"

\* Both runs are active, before and after the step, and neither was started
\* by it.
C23_BothGoOn ==
    /\ pumpActivated /\ feedActivated
    /\ pumpActivated' /\ feedActivated'
    /\ hPumpStarts' = hPumpStarts
    /\ hFeedStarts' = hFeedStarts

\* C23: one press of the pause key on the main display flips the paused
\* flag of every active run (both, if both are active) and of no other; so
\* once exactly one of two active runs is paused, exactly one stays paused,
\* whatever is pressed, until a run ends or is started again.
C23_PauseFlipsEveryRun ==
    [][/\ C23_PausePressed =>
              /\ pumpActivated' = pumpActivated
              /\ feedActivated' = feedActivated
              /\ pumpPaused' = (IF pumpActivated THEN ~pumpPaused ELSE pumpPaused)
              /\ feedPaused' = (IF feedActivated THEN ~feedPaused ELSE feedPaused)
       /\ (C23_BothGoOn /\ pumpPaused # feedPaused) => pumpPaused' # feedPaused'
      ]_vars

\* One press has just resumed the paused pump and paused the running feed.
C23_Witness ==
    /\ key = "#"
    /\ shown = <<"PUMP RESUMED", "FEED PAUSED">>
    /\ pumpActivated /\ ~pumpPaused
    /\ feedActivated /\ feedPaused

=============================================================================
